---- MODULE Spec2Model ----
(***************************************************************************)
(* Production-planning metaheuristic: the evaluator/repairer               *)
(* (metaheuristic/ALNS_operator.py) and the tabu-search orchestrator       *)
(* (metaheuristic/tabu_search.py) with its neighbour generator.            *)
(*                                                                         *)
(* Encoding.  Style ids are 0..|Styles|-1 as in style_to_id; Python None   *)
(* is None (-1); an external style name (a str) is NameBase + id, so that  *)
(* isinstance(x, str) is x >= NameBase.  float('inf') is Inf.              *)
(* Quantities are integers: the instance below makes every division of the *)
(* simulation exact.  Costs are kept in units of 1/(AlphaDen+AlphaNum)^T,  *)
(* so that the discount 1/(1+alpha)^t is exact; the pruning ceiling is     *)
(* kept in units of 1/5 of a cost unit, so that best_cost * 1.2 is exact.  *)
(* The 1e-6 tolerances of the code are 0 on integer quantities.            *)
(*                                                                         *)
(* Six specifications.  SpecEval steps one call of repair_and_evaluate    *)
(* period by period, followed by a second call on what the first returned. *)
(* Spec runs the solver: the constructor, the passes of the loop of        *)
(* solve() and _finalize_solution; there every repair_and_evaluate call is *)
(* the operator Evaluate.  SpecCurve applies get_efficiency to learning    *)
(* curves.  SpecOsc applies the relax step of the oscillation handler to   *)
(* the best solution at a pass where the trigger holds.  SpecRepair runs   *)
(* the whole of _perform_oscillation there: the relax step, the scan of    *)
(* aggressive_repair cell by cell, the evaluation and the acceptance.      *)
(* SpecStall runs                                                          *)
(* the counters of solve() under the thresholds main.py configures, each   *)
(* pass reduced to its outcome.  The random draws of the code (repair,     *)
(* operator choice, attempts of an operator, order of equal-cost           *)
(* neighbors, forced cells) are nondeterministic choices.                  *)
(*                                                                         *)
(* solve() requests neighbors with generate_neighbors(current_solution,    *)
(* mo_probability, evaluator), but the method is declared                  *)
(* generate_neighbors(self, base_solution, evaluator): as written the call *)
(* raises TypeError (action SolveRaise).  The rest of a pass is modelled   *)
(* with the batch the generator returns for (base_solution, evaluator).    *)
(***************************************************************************)
EXTENDS Integers, Sequences, FiniteSets, TLC

VARIABLES
    inst,            \* the problem instance: y0, cap, i0fab, the data set, the curve
    pruning_cutoff,  \* ALNSOperator.pruning_cutoff, in fifths of a cost unit
    ev,              \* the running repair_and_evaluate call: its locals and solution
    epc,             \* position in repair_and_evaluate
    et,              \* the period the time loop is at
    epass,           \* 1: first evaluation, 2: evaluation of the returned solution
    efirst,          \* the solution returned by the first evaluation
    ein,             \* the assignment handed to the first evaluation
    spc,             \* where the solver is: "new", "loop", "done", "raised" ("idle": no solver)
    iter,            \* the loop variable i of solve()
    current_solution,
    best_solution,
    best_cost,
    costs,           \* TabuSearchSolver.costs
    tabu_list,       \* the deque of move signatures, oldest first
    tabu_maxlen,     \* the maxlen the deque was built with
    current_tenure,
    no_improvement_counter,
    consecutive_improvements_counter,
    neighbors,       \* the batch of the last iteration (a set: the sort order is its cost order)
    found_valid_move,\* the flag of the last iteration's admission loop
    warnings,        \* the lines the constructor printed a WARNING for
    q_values,        \* NeighborGenerator.q_values
    selection_counts,\* NeighborGenerator.selection_counts
    final_sol,       \* what solve() returned
    cfg,             \* the constructor's arguments kept by the solver
    stall,           \* history: passes ended since the last global improvement
    relaxed_sol,     \* what explore_infeasible_region returned
    eff_calls,       \* the last calls of get_efficiency: <<exp_days, result>>
    repaired_assign, \* aggressive_repair: the grid its scan works on
    scan_idx,        \* aggressive_repair: the position of its scan
    feasible_sol,    \* what aggressive_repair returned
    oscillation_triggered  \* what _perform_oscillation returned

evars == <<inst, pruning_cutoff, ev, epc, et, epass, efirst, ein>>

evars_local == <<ev, epc, et, epass, efirst, ein>>

svars == <<spc, iter, current_solution, best_solution, best_cost, costs, tabu_list,
           tabu_maxlen, current_tenure, no_improvement_counter, consecutive_improvements_counter,
           neighbors, found_valid_move, warnings, q_values, selection_counts,
           final_sol>>

\* the variables outside the evaluator and the search loop
ovars == <<repaired_assign, scan_idx, feasible_sol, oscillation_triggered>>

xvars == <<cfg, stall, relaxed_sol, eff_calls, repaired_assign, scan_idx, feasible_sol,
           oscillation_triggered>>

vars == <<inst, pruning_cutoff, ev, epc, et, epass, efirst, ein,
          spc, iter, current_solution, best_solution, best_cost, costs, tabu_list,
          tabu_maxlen, current_tenure, no_improvement_counter, consecutive_improvements_counter,
          neighbors, found_valid_move, warnings, q_values, selection_counts,
          final_sol, cfg, stall, relaxed_sol, eff_calls, repaired_assign, scan_idx,
          feasible_sol, oscillation_triggered>>

-----------------------------------------------------------------------------
\* Encoding of None, inf and style names

None == 0 - 1

Inf == 2000 * 1000 * 1000

NameBase == 10 + 0

\* ---------------------------------------------------------------- instance
\* Two data sets. inst.scenario = 0: the base data set, two lines and three
\* styles. inst.scenario = d in 1..NumPeriods: the end-to-end scenario, one
\* line and one style, zero lead times, SAM 1, 10 units of fabric arriving in
\* period 1, no stock and no backlog, a demand of 5 units in period d.
BaseLines == {1, 2}

BaseStyles == 0..2

\* set['setL'], in list order
set_l == IF inst.scenario = 0 THEN <<1, 2>> ELSE <<1>>

LineSet == {set_l[i] : i \in 1..Len(set_l)}

\* style ids of style_to_id (sorted names -> 0..N-1)
StyleIds == IF inst.scenario = 0 THEN BaseStyles ELSE {0}

NumPeriods == 3

\* sorted(set['setT'])
Periods == 1..NumPeriods

Cells == LineSet \X Periods

\* the style name of an id, and a name's id (style_to_id.get)
id_to_style(i) == NameBase + i

IsStr(v) == v >= NameBase

style_to_id_get(v) == IF (v - NameBase) \in StyleIds THEN v - NameBase ELSE None

\* discount_alpha = AlphaNum / AlphaDen
AlphaPair == <<1, 4>>

AlphaNum == AlphaPair[1]

AlphaDen == AlphaPair[2]

RECURSIVE Pow(_, _)
Pow(b, n) == IF n = 0 THEN 1 ELSE b * Pow(b, n - 1)

\* one cost unit of the code is CostScale units of the model
CostScale == Pow(AlphaDen + AlphaNum, NumPeriods)

\* param['Csetup'], param['Rexp'], param['Plate'][s]
Csetup == 150

Rexp == 1

Plate == 50

\* paramH[(l, t)], paramN[l], paramSAM[s]
paramH(l, t) == IF l = 2 /\ t = 2 THEN 0 ELSE 1

paramN(l) == 1 + 0

paramSAM(s) == IF inst.scenario = 0 THEN 3 ELSE 1

\* learning curve: setBP with (paramXp, paramFp); efficiencies in 1/EffDen
EffDen == 20 + 0

BaseCurve == << <<0, 10>>, <<10, 20>> >>

curve == inst.curve

\* paramExp0[l], paramLexp[(l, s)]
paramExp0(l) == IF inst.scenario = 0 /\ l = 1 THEN 4 ELSE 0

paramLexp(l, s) == IF inst.scenario # 0 THEN 0 ELSE IF s = 1 THEN 6 ELSE 2

\* lead times, arrivals, demand, initial stock and backlog
paramTfabprocess(s) == IF inst.scenario = 0 /\ s = 1 THEN 1 ELSE 0

paramTprodfinish(s) == IF inst.scenario # 0 \/ s = 1 THEN 0 ELSE 1

paramF(s, t) ==
    IF inst.scenario # 0 THEN (IF t = 1 THEN 10 ELSE 0)
    ELSE IF s = 1 /\ t = 1 THEN 12 ELSE 0

paramD(s, t) ==
    IF inst.scenario # 0 THEN (IF t = inst.scenario THEN 5 ELSE 0)
    ELSE IF s = 0 /\ t = 2 THEN 8 ELSE IF s = 1 /\ t = 3 THEN 15 ELSE 0

paramI0product(s) == 0 * s

paramB0(s) == IF inst.scenario = 0 /\ s = 0 THEN 1 ELSE 0

\* set['setSsame']
setSsame == {}

-----------------------------------------------------------------------------
\* ALNSOperator: capability index

\* line_allowed_sets[l] / line_allowed_lists[l]
line_allowed(l) == inst.cap[l]

is_allowed(l, s) == s \in line_allowed(l)

\* _random_allowed_style_id: the values random.choice can return (None if empty)
random_allowed_style_id(l) == IF line_allowed(l) = {} THEN {None} ELSE line_allowed(l)

get_initial_style_id(l) == inst.y0[l]

\* _discount(t), times CostScale
discount(t) == Pow(AlphaDen, t) * Pow(AlphaDen + AlphaNum, NumPeriods - t)

\* precomputed line_capacity[l][t-1] and style_sam.get(s, 0)
line_capacity(l, t) == paramH(l, t) * 60 * paramN(l)

get_sam(s) == IF s \in StyleIds THEN paramSAM(s) ELSE 0

Min(a, b) == IF a <= b THEN a ELSE b

Max(a, b) == IF a >= b THEN a ELSE b

\* get_efficiency(exp_days), in 1/EffDen
RECURSIVE interpolate(_, _)
interpolate(x, i) ==
    IF i > Len(curve) - 1 THEN curve[Len(curve)][2]
    ELSE IF curve[i][1] <= x /\ x <= curve[i + 1][1]
         THEN curve[i][2] + ((curve[i + 1][2] - curve[i][2]) * (x - curve[i][1]))
                              \div (curve[i + 1][1] - curve[i][1])
         ELSE interpolate(x, i + 1)

\* a curve that answers with its last value below the first breakpoint (C16
\* fails for it)
get_efficiency_mut(x) ==
    IF x <= curve[1][1] THEN curve[Len(curve)][2]
    ELSE IF x >= curve[Len(curve)][1] THEN curve[Len(curve)][2]
    ELSE interpolate(x, 1)

get_efficiency(x) ==
    IF x <= curve[1][1] THEN curve[1][2]
    ELSE IF x >= curve[Len(curve)][1] THEN curve[Len(curve)][2]
    ELSE interpolate(x, 1)

\* set_pruning_best(best_cost): the ceiling best_cost * 1.2, in fifths
set_pruning_best(best) == IF best = Inf THEN Inf ELSE best * 6

-----------------------------------------------------------------------------
\* repair_and_evaluate

\* REPAIR PHASE: the grids the repair loop can leave (one random draw per bad cell)
RepairedCell(l, s) ==
    LET sid == IF IsStr(s) THEN style_to_id_get(s) ELSE s
    IN  IF sid = None \/ ~is_allowed(l, sid) THEN random_allowed_style_id(l) ELSE {s}

BadCells(a) == {c \in Cells : RepairedCell(c[1], a[c]) # {a[c]}}

RECURSIVE RepairSet(_, _)
RepairSet(a, todo) ==
    IF todo = {} THEN {a}
    ELSE LET c == CHOOSE x \in todo : TRUE
         IN  UNION {{[b EXCEPT ![c] = v] : v \in RepairedCell(c[1], a[c])} :
                      b \in RepairSet(a, todo \ {c})}

Repairs(a) == RepairSet(a, BadCells(a))

\* EVALUATE INITIALIZATION: the locals of the simulation and the emptied fields
EvalInit(a) ==
    [assignment  |-> a,
     inv_fab     |-> [s \in StyleIds |-> inst.i0fab[s]],
     inv_prod    |-> [s \in StyleIds |-> paramI0product(s)],
     backlog     |-> [s \in StyleIds |-> paramB0(s)],
     cur         |-> [l \in LineSet |-> get_initial_style_id(l)],
     exp         |-> [l \in LineSet |-> paramExp0(l)],
     up_exp      |-> [l \in LineSet |-> 0],
     hist        |-> [k \in StyleIds \X Periods |-> 0],
     pot         |-> [s \in StyleIds |-> <<>>],
     setup_cost  |-> 0,
     late_cost   |-> 0,
     exp_reward  |-> 0,
     production  |-> {},
     shipment    |-> {},
     changes     |-> {},
     experience  |-> {},
     efficiency  |-> {},
     final_backlog |-> <<>>,
     est         |-> 0,
     total_cost  |-> None,
     complete    |-> FALSE]

\* a solution variable that holds no dict yet
NoSolution == [total_cost |-> None]

\* inv_fab[s] of the defaultdict: 0.0 for a key it does not hold
InvFab(st, s) == IF s \in StyleIds THEN st.inv_fab[s] ELSE 0

\* receipts that reach the stock one period late (C15 fails for them)
FabricReceipts_mut(st, t) ==
    [st EXCEPT !.inv_fab = [s \in StyleIds |->
        st.inv_fab[s] + (IF (t - 1 - paramTfabprocess(s)) \in Periods
                         THEN paramF(s, t - 1 - paramTfabprocess(s)) ELSE 0)],
               !.pot = [s \in StyleIds |-> <<>>]]

\* 1. Fabric Receipts
FabricReceipts(st, t) ==
    [st EXCEPT !.inv_fab = [s \in StyleIds |->
        st.inv_fab[s] + (IF (t - paramTfabprocess(s)) \in Periods
                         THEN paramF(s, t - paramTfabprocess(s)) ELSE 0)],
               !.pot = [s \in StyleIds |-> <<>>]]

\* a guard that does not look at the next period (C6 fails for it)
LookAheadBlocksMut(st, l, t, new_style_id) ==
    /\ st.cur[l] # None
    /\ st.cur[l] # new_style_id
    /\ InvFab(st, new_style_id) <= 0

\* [LOOK-AHEAD LOGIC]: TRUE when the switch to new_style_id is blocked at (l, t)
LookAheadBlocks(st, l, t, new_style_id) ==
    /\ st.cur[l] # None
    /\ st.cur[l] # new_style_id
    /\ InvFab(st, new_style_id) <= 0
    /\ ~(t < NumPeriods /\ st.assignment[<<l, t + 1>>] = new_style_id)

\* 2. Decide Production: the body of `for l in set_l` for one line
LineStep(st, l, t) ==
    LET exp1 == st.exp[l] + st.up_exp[l]
        asg  == st.assignment[<<l, t>>]
    IN  IF asg = None
        THEN [st EXCEPT !.exp[l] = exp1, !.up_exp[l] = 0]
        ELSE
        LET blocked == LookAheadBlocks(st, l, t, asg)
            new_style_id == IF blocked THEN st.cur[l] ELSE asg
            switch == st.cur[l] # new_style_id
            exp2 == IF switch /\ <<st.cur[l], new_style_id>> \notin setSsame
                    THEN (IF new_style_id \in StyleIds THEN paramLexp(l, new_style_id) ELSE 0)
                    ELSE exp1
            eff == get_efficiency(exp2)
            sam == get_sam(new_style_id)
            producer == paramH(l, t) > 0 /\ sam > 0
            max_p == (line_capacity(l, t) * eff) \div (EffDen * sam)
        IN  [st EXCEPT
               !.assignment[<<l, t>>] = new_style_id,
               !.changes = IF switch THEN @ \cup {<<l, st.cur[l], new_style_id, t>>} ELSE @,
               !.setup_cost = IF switch THEN @ + Csetup * discount(t) ELSE @,
               !.exp[l] = exp2,
               !.experience = @ \cup {<<l, t, exp2>>},
               !.efficiency = @ \cup {<<l, t, eff>>},
               !.exp_reward = @ + exp2 * Rexp * CostScale,
               !.pot = IF producer
                       THEN [@ EXCEPT ![new_style_id] = Append(@, <<l, max_p>>)]
                       ELSE @,
               !.up_exp[l] = 0,
               !.cur[l] = new_style_id]

RECURSIVE DecideProduction(_, _, _)
DecideProduction(st, i, t) ==
    IF i > Len(set_l) THEN st
    ELSE DecideProduction(LineStep(st, set_l[i], t), i + 1, t)

RECURSIVE SumMaxP(_)
SumMaxP(items) == IF items = <<>> THEN 0 ELSE Head(items)[2] + SumMaxP(Tail(items))

\* production not capped by the fabric in stock (C8 fails for it)
actual_p_mut(total_cap, fab) == total_cap

\* actual_p = min(total_cap, inv_fab[s_id])

actual_p(total_cap, fab) == Min(total_cap, fab)

\* a line that counts as having worked enough whenever its style was produced
worked_enough_mut(act, max_p, total_cap) == act > 0

\* share >= 0.5 * max_p, with share = act * max_p / total_cap
worked_enough(act, max_p, total_cap) == 2 * act * max_p >= max_p * total_cap

\* 3. Realise Production, for one style
RealiseStyle(st, s, t) ==
    LET items == st.pot[s]
        total_cap == SumMaxP(items)
        act == actual_p(total_cap, st.inv_fab[s])
        gains == {items[k][1] : k \in {j \in 1..Len(items) :
                      worked_enough(act, items[j][2], total_cap)}}
    IN  IF items = <<>> THEN st
        ELSE [st EXCEPT
               !.hist[<<s, t>>] = act,
               !.inv_fab[s] = @ - act,
               !.production = IF total_cap > 0
                   THEN @ \cup {<<items[k][1], s, t, act * items[k][2], total_cap>> :
                                  k \in 1..Len(items)}
                   ELSE @,
               !.up_exp = IF total_cap > 0
                   THEN [l \in LineSet |-> IF l \in gains THEN 1 ELSE @[l]]
                   ELSE @]

\* shipping the whole stock whatever is due (C7 fails for it)
ship_qty_mut(inv, to_ship) == inv

\* ship_qty = min(inv_prod[s_id], to_ship)

ship_qty(inv, to_ship) == Min(inv, to_ship)

\* 4. Shipments & Backlog, for one style
ShipStyle(st, s, t) ==
    LET lt == paramTprodfinish(s)
        finished == IF (t - lt) \in Periods THEN st.hist[<<s, t - lt>>] ELSE 0
        inv == st.inv_prod[s] + finished
        to_ship == st.backlog[s] + paramD(s, t)
        q == ship_qty(inv, to_ship)
        bl == to_ship - q
    IN  [st EXCEPT
           !.shipment = @ \cup {<<s, t, q>>},
           !.inv_prod[s] = inv - q,
           !.backlog[s] = bl,
           !.late_cost = IF bl > 0 THEN @ + bl * Plate * discount(t) ELSE @]

RECURSIVE ForStyles(_, _, _, _)
ForStyles(Op(_, _, _), st, s, t) ==
    IF s \notin StyleIds THEN st ELSE ForStyles(Op, Op(st, s, t), s + 1, t)

\* one pass of the TIME LOOP body after the fast-fail check
PeriodStep(st, t) ==
    ForStyles(ShipStyle,
        ForStyles(RealiseStyle, DecideProduction(FabricReceipts(st, t), 1, t), 0, t),
        0, t)

\* FAST FAIL CHECK: est is the local current_est_cost, the cutoff is in fifths
current_est_cost(st) == [st EXCEPT !.est = st.setup_cost + st.late_cost - st.exp_reward]

\* an evaluator that never aborts (the amended C1 fails for it)
FastFailMut(st, cutoff) == FALSE

\* current_est_cost > self.pruning_cutoff

FastFail(st, cutoff) == cutoff # Inf /\ 5 * current_est_cost(st).est > cutoff

\* the pruned return: only total_cost is set
Pruned(st) == [current_est_cost(st) EXCEPT !.total_cost = Inf]

\* FINALIZE
Finalize(st) ==
    [st EXCEPT !.final_backlog = [n \in {id_to_style(k) : k \in StyleIds} |->
                                    st.backlog[style_to_id_get(n)]],
               !.total_cost = st.setup_cost + st.late_cost - st.exp_reward,
               !.complete = TRUE]

\* the TIME LOOP from period t on, then FINALIZE
RECURSIVE TimeLoop(_, _, _)
TimeLoop(st, t, cutoff) ==
    IF t > NumPeriods THEN Finalize(st)
    ELSE IF FastFail(st, cutoff) THEN Pruned(st)
    ELSE TimeLoop(PeriodStep(current_est_cost(st), t), t + 1, cutoff)

\* repair_and_evaluate on an already repaired grid b
Evaluate(b, cutoff) == TimeLoop(EvalInit(b), 1, cutoff)

-----------------------------------------------------------------------------
\* The evaluator run step by step: one call of repair_and_evaluate, and a
\* second call on the solution the first one returned.

\* styles 0 and 1 are planned; style 2 is enabled on no line and can only be
\* what a line was running before the horizon (paramY0)
PlanStyles == {0, 1}

CapConfigs ==
    {[l \in BaseLines |-> PlanStyles],
     [l \in BaseLines |-> IF l = 1 THEN {0} ELSE PlanStyles],
     [l \in BaseLines |-> IF l = 2 THEN {1} ELSE PlanStyles]}

Y0Configs == {y \in [BaseLines -> BaseStyles \cup {None}] : y[2] \in {None, 1}}

FabConfigs == {f \in [BaseStyles -> {0, 30}] : f[2] = 30}

\* the end-to-end scenario: the line starts with no style and is enabled for
\* the one style; no initial fabric
ScenarioInstances ==
    [y0 : {[l \in {1} |-> None]}, cap : {[l \in {1} |-> {0}]},
     i0fab : {[s \in {0} |-> 0]}, scenario : 1..NumPeriods, curve : {BaseCurve}]

Instances ==
    [y0 : Y0Configs, cap : CapConfigs, i0fab : FabConfigs, scenario : {0},
     curve : {BaseCurve}] \cup ScenarioInstances

\* ceilings handed to the evaluator, in code cost units
Ceilings == {0 - 24, 0, 120, 400}

Cutoffs == {Inf} \cup {5 * CostScale * c : c \in Ceilings}

Grids == [Cells -> PlanStyles]

\* the number of passes the search is explored for
MaxIter == 3

\* the arguments the search is explored with: the image of the defaults
\* (tabu_tenure 15, min 5, max 40, thresholds 50 and 10) on MaxIter passes
ScaledConfig ==
    [max_iter |-> MaxIter, tabu_tenure |-> 3, min_tenure |-> 1, max_tenure |-> 4,
     increase_threshold |-> 2, decrease_threshold |-> 2]

\* nothing but the evaluator and the search loop is exercised
NoExtras ==
    /\ cfg = ScaledConfig
    /\ stall = 0
    /\ relaxed_sol = NoSolution
    /\ eff_calls = <<>>
    /\ repaired_assign = <<>>
    /\ scan_idx = 0
    /\ feasible_sol = NoSolution
    /\ oscillation_triggered = FALSE

\* no solver is constructed around the evaluator
NoSolver ==
    /\ spc = "idle"
    /\ iter = 0
    /\ current_solution = NoSolution
    /\ best_solution = NoSolution
    /\ best_cost = None
    /\ costs = <<>>
    /\ tabu_list = <<>>
    /\ tabu_maxlen = 0
    /\ current_tenure = 0
    /\ no_improvement_counter = 0
    /\ consecutive_improvements_counter = 0
    /\ neighbors = {}
    /\ found_valid_move = FALSE
    /\ warnings = {}
    /\ q_values = <<>>
    /\ selection_counts = <<>>
    /\ final_sol = NoSolution
    /\ NoExtras

EvInit ==
    /\ inst \in Instances
    /\ pruning_cutoff \in Cutoffs
    /\ ein \in Grids
    /\ ev = EvalInit(ein)
    /\ epc = "start"
    /\ et = 0
    /\ epass = 1
    /\ efirst = EvalInit(ein)
    /\ NoSolver

\* REPAIR PHASE and EVALUATE INITIALIZATION
EvRepair ==
    /\ epc = "start"
    /\ \E b \in Repairs(IF epass = 1 THEN ein ELSE efirst.assignment) : ev' = EvalInit(b)
    /\ epc' = "loop"
    /\ et' = 1
    /\ UNCHANGED <<inst, pruning_cutoff, epass, efirst, ein>>
    /\ UNCHANGED svars
    /\ UNCHANGED xvars

\* FAST FAIL CHECK taken: return the sentinel
EvFastFail ==
    /\ epc = "loop"
    /\ et <= NumPeriods
    /\ FastFail(ev, pruning_cutoff)
    /\ ev' = Pruned(ev)
    /\ epc' = "done"
    /\ UNCHANGED <<inst, pruning_cutoff, et, epass, efirst, ein>>
    /\ UNCHANGED svars
    /\ UNCHANGED xvars

\* one period of the TIME LOOP
EvPeriod ==
    /\ epc = "loop"
    /\ et <= NumPeriods
    /\ ~FastFail(ev, pruning_cutoff)
    /\ ev' = PeriodStep(current_est_cost(ev), et)
    /\ et' = et + 1
    /\ UNCHANGED <<inst, pruning_cutoff, epc, epass, efirst, ein>>
    /\ UNCHANGED svars
    /\ UNCHANGED xvars

\* FINALIZE
EvFinalize ==
    /\ epc = "loop"
    /\ et > NumPeriods
    /\ ev' = Finalize(ev)
    /\ epc' = "done"
    /\ UNCHANGED <<inst, pruning_cutoff, et, epass, efirst, ein>>
    /\ UNCHANGED svars
    /\ UNCHANGED xvars

\* the caller evaluates the returned solution again
EvAgain ==
    /\ epc = "done"
    /\ epass = 1
    /\ efirst' = ev
    /\ epass' = 2
    /\ epc' = "start"
    /\ et' = 0
    /\ UNCHANGED <<inst, pruning_cutoff, ev, ein>>
    /\ UNCHANGED svars
    /\ UNCHANGED xvars

EvNext == EvRepair \/ EvFastFail \/ EvPeriod \/ EvFinalize \/ EvAgain

SpecEval == EvInit /\ [][EvNext]_vars

-----------------------------------------------------------------------------
\* Properties of the evaluator (checked under SpecEval)

\* every cell of grid a holds a style enabled on its line
Feasible(a) == \A c \in Cells : a[c] \in line_allowed(c[1])

EvReturned == epc = "done"

\* C1 (as stated): with a finite ceiling c the call returns the sentinel or a
\* finite total_cost <= c.
C1_NeverAboveCeiling ==
    (EvReturned /\ pruning_cutoff # Inf) =>
        (ev.total_cost = Inf \/ 5 * ev.total_cost <= pruning_cutoff)

\* C1 (amended): with a finite ceiling c the call returns the sentinel, or a
\* finite total_cost whose running cost was <= c at every fast-fail check; the
\* check runs at the start of each period, so the total can exceed c only by
\* what the last period added.
C1_FiniteMeansChecksPassed ==
    (EvReturned /\ pruning_cutoff # Inf) =>
        (ev.total_cost = Inf \/ 5 * ev.est <= pruning_cutoff)

\* a finite total above the finite ceiling has been returned
C1_Witness ==
    /\ EvReturned
    /\ pruning_cutoff # Inf
    /\ ev.total_cost # Inf
    /\ 5 * ev.total_cost > pruning_cutoff
    /\ 5 * ev.est <= pruning_cutoff

\* C2: an assignment whose unbounded total cost is <= the finite ceiling c is
\* not aborted under ceiling c and yields the result of the unbounded run
\* (stated for capability-feasible grids, which the repair leaves as they are).
C2_Completeness ==
    (EvReturned /\ epass = 1 /\ pruning_cutoff # Inf /\ Feasible(ein)
        /\ 5 * Evaluate(ein, Inf).total_cost <= pruning_cutoff)
    => ev = Evaluate(ein, Inf)

\* C4: with the ceiling at +inf, evaluating a capability-feasible assignment
\* and then the returned solution again yields the same solution.
C4_Idempotent ==
    (EvReturned /\ epass = 2 /\ pruning_cutoff = Inf /\ Feasible(ein)) => ev = efirst

\* C5: every cell of the returned assignment holds a style enabled on its line.
C5_ReturnedFeasible == EvReturned => Feasible(ev.assignment)

\* C6: look-ahead guard.  In a period t with a following period, for a line
\* with current style c, assigned s # c and no fabric of s after the receipts
\* of t: if the cell (line, t+1) holds s the switch is made (line on s, cell
\* kept, changeover recorded); otherwise the cell is rewritten to c, the line
\* stays on c and no changeover is recorded for (line, t).  The setup cost
\* grows by Csetup * discount(t) per changeover recorded at t.
C6_Case(l) ==
    LET c == ev.cur[l]
        s == ev.assignment[<<l, et>>]
    IN  /\ et < NumPeriods
        /\ c # None
        /\ s # None
        /\ s # c
        /\ FabricReceipts(ev, et).inv_fab[s] = 0

C6_LookAheadGuard ==
    [][EvPeriod =>
        /\ \A l \in LineSet : C6_Case(l) =>
             LET c == ev.cur[l]
                 s == ev.assignment[<<l, et>>]
             IN  IF ev.assignment[<<l, et + 1>>] = s
                 THEN /\ ev'.cur[l] = s
                      /\ ev'.assignment[<<l, et>>] = s
                      /\ <<l, c, s, et>> \in ev'.changes
                 ELSE /\ ev'.cur[l] = c
                      /\ ev'.assignment[<<l, et>>] = c
                      /\ ~\E x \in ev'.changes : x[1] = l /\ x[4] = et
        /\ ev'.setup_cost = ev.setup_cost
             + Csetup * discount(et) * Cardinality({x \in ev'.changes : x[4] = et})
    ]_vars

\* the guard has rewritten a cell of a feasible grid in a period that has a
\* following period
C6_Witness ==
    /\ epass = 1
    /\ epc = "loop"
    /\ Feasible(ein)
    /\ \E l \in LineSet : \E t \in 1..(NumPeriods - 1) :
         /\ t < et
         /\ ev.assignment[<<l, t>>] # ein[<<l, t>>]

\* C7: backlog recurrence.  Over every period t and style s, with to_ship =
\* backlog before t + demand(s, t) and stock = finished goods after the receipts
\* of t: shipped = min(stock, to_ship), backlog after t = max(0, to_ship -
\* shipped), and the backlog is never negative.
C7_BacklogRecurrence ==
    [][EvPeriod =>
        \A s \in StyleIds :
          LET lt == paramTprodfinish(s)
              stock == ev.inv_prod[s]
                        + (IF (et - lt) \in Periods THEN ev'.hist[<<s, et - lt>>] ELSE 0)
              to_ship == ev.backlog[s] + paramD(s, et)
              shipped == Min(stock, to_ship)
          IN  /\ <<s, et, shipped>> \in ev'.shipment
              /\ ev'.backlog[s] = Max(0, to_ship - shipped)
              /\ ev'.backlog[s] >= 0
    ]_vars

\* a period has ended with something shipped and a backlog left
C7_Witness ==
    /\ epc = "loop"
    /\ et > 1
    /\ \E x \in ev.shipment : x[3] > 0
    /\ \E s \in StyleIds : ev.backlog[s] > 0

\* C8: fabric and finished-goods inventories are never negative.
C8_InventoryNonNegative ==
    \A s \in StyleIds : ev.inv_fab[s] >= 0 /\ ev.inv_prod[s] >= 0

\* production has used up the fabric of a style (capacity exceeded the stock)
\* and finished goods have been shipped to the last unit
C8_Witness ==
    /\ epc = "loop"
    /\ \E s \in StyleIds : \E t \in Periods :
         t < et /\ ev.hist[<<s, t>>] > 0 /\ ev.inv_fab[s] = 0
    /\ \E x \in ev.shipment : x[3] > 0 /\ ev.inv_prod[x[1]] = 0

-----------------------------------------------------------------------------
\* NeighborGenerator (metaheuristic/neighbor_generator.py).  It is built on
\* cap_map, whose styles are the external names, so the styles it writes into
\* a grid are names, and its _is_allowed is a test on names.

MaxBatch == 2

\* the distinct slots one high-risk style is written into (the code draws 3)
MaxSlots == 1

cap_map(l) == {id_to_style(s) : s \in inst.cap[l]}

gen_is_allowed(line, style) == style \in cap_map(line)

\* the operators (arms) of the bandit; the Q-values are never updated by the
\* solver, so select_operator can return any of them
operators ==
    {"swap", "reassign_single", "reassign_block", "setup_reduction",
     "late_reduction", "balanced"}

\* the optimistic initial value estimate of every operator
QInit == 10

\* select_operator (epsilon-greedy): the operators it can return. epsilon
\* starts at 0.3 and never falls below epsilon_min = 0.05, so the exploring
\* branch can return any operator; the exploiting branch returns one of the
\* highest estimate
select_operator ==
    operators \cup {op \in operators : \A o \in operators : q_values[o] <= q_values[op]}

\* Python truthiness of a cell value: None and the id 0 are falsy
Truthy(v) == v # None /\ v # 0

\* the subsets of S with at most k elements
RECURSIVE SubsetsUpTo(_, _)
SubsetsUpTo(S, k) ==
    IF k = 0 THEN {{}}
    ELSE LET P == SubsetsUpTo(S, k - 1)
         IN  P \cup {q \cup {x} : q \in P, x \in S}

\* evaluator.repair_and_evaluate({'assignment': a}) under the current ceiling
Results(a, cutoff) == {Evaluate(b, cutoff) : b \in Repairs(a)}

RECURSIVE EvalBatches(_, _)
EvalBatches(R, cutoff) ==
    IF R = {} THEN {{}}
    ELSE LET r == CHOOSE x \in R : TRUE
         IN  {B \cup {e} : B \in EvalBatches(R \ {r}, cutoff), e \in Results(r, cutoff)}

\* the distinct neighbors a loop of random attempts can collect: any of the
\* evaluated grids an attempt can produce, none only if an attempt can
\* produce nothing
AttemptBatches(moves, can_miss, cutoff) ==
    LET cands == UNION {Results(r, cutoff) : r \in moves}
    IN  {B \in SubsetsUpTo(cands, MaxBatch) : B # {} \/ can_miss \/ moves = {}}

\* 1. Swap, 6. Balanced: exchange two periods of one line if they differ
SwapPairs == {x \in LineSet \X Periods \X Periods : x[2] # x[3]}

gen_swap(a, cutoff) ==
    IF NumPeriods < 2 THEN {{}}
    ELSE AttemptBatches(
           {[a EXCEPT ![<<x[1], x[2]>>] = a[<<x[1], x[3]>>],
                      ![<<x[1], x[3]>>] = a[<<x[1], x[2]>>]] :
              x \in {y \in SwapPairs : a[<<y[1], y[2]>>] # a[<<y[1], y[3]>>]}},
           \E y \in SwapPairs : a[<<y[1], y[2]>>] = a[<<y[1], y[3]>>],
           cutoff)

\* 2. Reassign Single: one cell set to a random allowed style (a name)
gen_reassign_single(a, cutoff) ==
    AttemptBatches(
      UNION {{[a EXCEPT ![c] = n] : n \in {m \in cap_map(c[1]) : m # a[c]}} :
               c \in Cells},
      \E c \in Cells : cap_map(c[1]) = {} \/ a[c] \in cap_map(c[1]),
      cutoff)

\* 3. Reassign Block: a block of periods of one line set to one allowed style
BlockSizes == 2..Max(2, NumPeriods \div 4)

gen_reassign_block(a, cutoff) ==
    IF NumPeriods < 5 THEN {{}}
    ELSE AttemptBatches(
           UNION {UNION {{[c \in Cells |->
                             IF c[1] = l /\ c[2] \in (b + 1)..(b + k) THEN n ELSE a[c]] :
                            b \in 0..(NumPeriods - k), n \in cap_map(l)} :
                         k \in BlockSizes} :
                  l \in LineSet} \ {a},
           \E l \in LineSet :
              \/ cap_map(l) = {}
              \/ \E k \in BlockSizes : \E b \in 0..(NumPeriods - k) :
                    /\ a[<<l, b + 1>>] \in cap_map(l)
                    /\ \A t \in (b + 1)..(b + k) : a[<<l, t>>] = a[<<l, b + 1>>],
           cutoff)

\* _find_short_segments: the maximal runs of equal cells of a line, as
\* <<first period, last period>>, of at most 3 periods
find_short_segments(line, a) ==
    {sg \in Periods \X Periods :
       /\ sg[1] <= sg[2]
       /\ sg[2] - sg[1] + 1 <= 3
       /\ \A t \in sg[1]..sg[2] : a[<<line, t>>] = a[<<line, sg[1]>>]
       /\ sg[1] > 1 => a[<<line, sg[1] - 1>>] # a[<<line, sg[1]>>]
       /\ sg[2] < NumPeriods => a[<<line, sg[2] + 1>>] # a[<<line, sg[1]>>]}

\* _get_dominant_neighbor_style
get_dominant_neighbor_style(line, sg, a) ==
    LET prev_style == IF sg[1] > 1 THEN a[<<line, sg[1] - 1>>] ELSE None
        next_style == IF sg[2] < NumPeriods THEN a[<<line, sg[2] + 1>>] ELSE None
    IN  IF Truthy(prev_style) /\ prev_style = next_style THEN prev_style
        ELSE IF Truthy(prev_style) THEN prev_style ELSE next_style

\* 4. Setup Reduction: per line, a random sample of at most 2 short segments;
\* a sampled segment is overwritten by its dominant neighbour style when that
\* is truthy and allowed; the lines after the one that reached 5 moves are skipped
SetupValid(l, a) ==
    {sg \in find_short_segments(l, a) :
       /\ Truthy(get_dominant_neighbor_style(l, sg, a))
       /\ gen_is_allowed(l, get_dominant_neighbor_style(l, sg, a))}

SetupMove(l, sg, a) ==
    [c \in Cells |-> IF c[1] = l /\ c[2] \in sg[1]..sg[2]
                     THEN get_dominant_neighbor_style(l, sg, a) ELSE a[c]]

RECURSIVE setup_batches(_, _, _)
setup_batches(a, i, attempts) ==
    IF i > Len(set_l) THEN {{}}
    ELSE LET l == set_l[i]
             segments == find_short_segments(l, a)
             k == Min(Cardinality(segments), 2)
             samples == {S \in SubsetsUpTo(segments, k) : Cardinality(S) = k}
         IN  UNION {LET done == S \cap SetupValid(l, a)
                        moves == {SetupMove(l, sg, a) : sg \in done}
                    IN  IF attempts + Cardinality(done) >= 5 THEN {moves}
                        ELSE {moves \cup rest :
                                rest \in setup_batches(a, i + 1, attempts + Cardinality(done))} :
                    S \in samples}

gen_setup_reduction(a, cutoff) ==
    UNION {EvalBatches(R, cutoff) : R \in setup_batches(a, 1, 0)}

\* _identify_high_risk_styles: the style names with a positive final backlog
\* (the caller keeps the top 3, which is all of them with 3 styles)
identify_high_risk_styles(solution) ==
    {n \in DOMAIN solution.final_backlog : solution.final_backlog[n] > 0}

\* 5. Late Cost Reduction: every high-risk style is written into up to 3
\* random slots of lines allowed for it that do not hold it
valid_slots(a, style) == {c \in Cells : gen_is_allowed(c[1], style) /\ a[c] # style}

RECURSIVE late_batches(_, _)
late_batches(a, styles) ==
    IF styles = {} THEN {{}}
    ELSE LET style == CHOOSE n \in styles : TRUE
             picks == IF valid_slots(a, style) = {} THEN {{}}
                      ELSE SubsetsUpTo(valid_slots(a, style), Min(3, MaxSlots)) \ {{}}
         IN  {{[a EXCEPT ![c] = style] : c \in P} \cup rest :
                P \in picks, rest \in late_batches(a, styles \ {style})}

gen_late_reduction(solution, cutoff) ==
    UNION {EvalBatches(R, cutoff) :
           R \in late_batches(solution.assignment, identify_high_risk_styles(solution))}

\* generate_neighbors(base_solution, evaluator): the batches the selected
\* operator can return
Dispatch(op, solution, cutoff) ==
    CASE op = "swap" -> gen_swap(solution.assignment, cutoff)
      [] op = "reassign_single" -> gen_reassign_single(solution.assignment, cutoff)
      [] op = "reassign_block" -> gen_reassign_block(solution.assignment, cutoff)
      [] op = "setup_reduction" -> gen_setup_reduction(solution.assignment, cutoff)
      [] op = "late_reduction" -> gen_late_reduction(solution, cutoff)
      [] op = "balanced" -> gen_swap(solution.assignment, cutoff)

generate_neighbors(base_solution, cutoff) ==
    UNION {Dispatch(op, base_solution, cutoff) : op \in select_operator}

-----------------------------------------------------------------------------
\* TabuSearchSolver (metaheuristic/tabu_search.py)

\* the constructor's arguments, as the solver keeps them
max_iter == cfg.max_iter

tabu_tenure == cfg.tabu_tenure

min_tenure == cfg.min_tenure

max_tenure == cfg.max_tenure

increase_threshold == cfg.increase_threshold

decrease_threshold == cfg.decrease_threshold

\* initialize_solution: every line runs its allowed style of largest total
\* demand over the whole horizon (None when it has no allowed style)
RECURSIVE SumDemand(_, _)
SumDemand(s, t) == IF t = 0 THEN 0 ELSE paramD(s, t) + SumDemand(s, t - 1)

InitialStyles(l) ==
    IF line_allowed(l) = {} THEN random_allowed_style_id(l)
    ELSE {s \in line_allowed(l) :
            \A r \in line_allowed(l) : SumDemand(r, NumPeriods) <= SumDemand(s, NumPeriods)}

initialize_solution ==
    UNION {Results([c \in Cells |-> f[c[1]]], pruning_cutoff) :
           f \in {g \in [LineSet -> StyleIds \cup {None}] :
                    \A l \in LineSet : g[l] \in InitialStyles(l)}}

\* _get_move_signature: the changed cells with their old and new value
get_move_signature(old_assign, new_assign) ==
    {<<c, old_assign[c], new_assign[c]>> : c \in {d \in Cells : new_assign[d] # old_assign[d]}}

\* a deque that drops its newest entries instead of its oldest (C13 fails for it)
DequeResize_mut(q, m) == IF Len(q) > m THEN SubSeq(q, 1, m) ELSE q

\* deque.append and deque(q, maxlen = m)
DequeResize(q, m) == IF Len(q) > m THEN SubSeq(q, Len(q) - m + 1, Len(q)) ELSE q

DequeAppend(q, x, m) == DequeResize(Append(q, x), m)

is_tabu(sig) == \E k \in 1..Len(tabu_list) : tabu_list[k] = sig

\* an aspiration test that also passes a cost equal to the best (C19 fails for it)
is_aspiration_mut(n) == n.total_cost <= best_cost

\* a candidate that always counts as a new best
is_aspiration_any(n) == TRUE

\* the aspiration test of the admission loop
is_aspiration(n) == n.total_cost < best_cost

\* an admission loop that takes the first neighbor (the amended C3 fails for it)
admitted_mut(n) == TRUE

\* the test of the admission loop

admitted(n) ==
    is_aspiration(n) \/ ~is_tabu(get_move_signature(current_solution.assignment, n.assignment))

\* the counters after _on_improvement / _on_no_improvement
on_improvement(k) ==
    [k EXCEPT !.consecutive_improvements_counter = @ + 1, !.no_improvement_counter = 0]

on_no_improvement(k) ==
    [k EXCEPT !.no_improvement_counter = @ + 1, !.consecutive_improvements_counter = 0]

\* _update_tenure on the counters, the tenure and the tabu list
update_tenure(k) ==
    IF k.consecutive_improvements_counter >= decrease_threshold
    THEN LET ten == IF k.current_tenure > min_tenure
                    THEN k.current_tenure - 1 ELSE k.current_tenure
         IN  [k EXCEPT !.current_tenure = ten,
                       !.tabu_list = DequeResize(@, ten),
                       !.tabu_maxlen = ten,
                       !.consecutive_improvements_counter = 0]
    ELSE IF k.no_improvement_counter >= increase_threshold
    THEN LET ten == IF k.current_tenure < max_tenure
                    THEN k.current_tenure + 2 ELSE k.current_tenure
         IN  [k EXCEPT !.current_tenure = ten,
                       !.tabu_list = DequeResize(@, ten),
                       !.tabu_maxlen = ten,
                       !.no_improvement_counter = 0]
    ELSE k

\* convert_solution_to_string_keys
id_to_style_get(v) == IF v \in StyleIds THEN id_to_style(v) ELSE None

convert_solution_to_string_keys(solution) ==
    [solution EXCEPT
       !.assignment = [c \in Cells |-> id_to_style_get(solution.assignment[c])],
       !.production = {[x EXCEPT ![2] = id_to_style_get(x[2])] : x \in solution.production}]

\* the instances the solver is run on: the capabilities include a line with
\* no enabled style, the initial styles include one its line is not enabled for
SolverInstances ==
    {[y0 |-> [l \in BaseLines |-> None],
      cap |-> [l \in BaseLines |-> PlanStyles],
      i0fab |-> [s \in BaseStyles |-> 30], scenario |-> 0, curve |-> BaseCurve],
     [y0 |-> [l \in BaseLines |-> IF l = 1 THEN 0 ELSE 1],
      cap |-> [l \in BaseLines |-> IF l = 2 THEN {1} ELSE PlanStyles],
      i0fab |-> [s \in BaseStyles |-> 30], scenario |-> 0, curve |-> BaseCurve],
     [y0 |-> [l \in BaseLines |-> IF l = 1 THEN 2 ELSE None],
      cap |-> [l \in BaseLines |-> PlanStyles],
      i0fab |-> [s \in BaseStyles |-> IF s = 2 THEN 30 ELSE 0], scenario |-> 0,
      curve |-> BaseCurve],
     [y0 |-> [l \in BaseLines |-> None],
      cap |-> [l \in BaseLines |-> IF l = 1 THEN {} ELSE PlanStyles],
      i0fab |-> [s \in BaseStyles |-> 30], scenario |-> 0, curve |-> BaseCurve]}

Init ==
    /\ inst \in SolverInstances
    /\ pruning_cutoff = Inf
    /\ ev = NoSolution
    /\ epc = "idle"
    /\ et = 0
    /\ epass = 0
    /\ efirst = NoSolution
    /\ ein = <<>>
    /\ spc = "new"
    /\ iter = 0
    /\ current_solution = NoSolution
    /\ best_solution = NoSolution
    /\ best_cost = None
    /\ costs = <<>>
    /\ tabu_list = <<>>
    /\ tabu_maxlen = 0
    /\ current_tenure = 0
    /\ no_improvement_counter = 0
    /\ consecutive_improvements_counter = 0
    /\ neighbors = {}
    /\ found_valid_move = FALSE
    /\ warnings = {}
    /\ q_values = <<>>
    /\ selection_counts = <<>>
    /\ final_sol = NoSolution
    /\ NoExtras

\* TabuSearchSolver.__init__: a line without capability only prints a WARNING;
\* the evaluator is built (ceiling +inf), the generator with its optimistic
\* value estimates and zero selection counts, and the initial solution simulated
Construct ==
    /\ spc = "new"
    /\ warnings' = {l \in LineSet : cap_map(l) = {}}
    /\ current_tenure' = tabu_tenure
    /\ tabu_list' = <<>>
    /\ tabu_maxlen' = current_tenure'
    /\ no_improvement_counter' = 0
    /\ consecutive_improvements_counter' = 0
    /\ pruning_cutoff' = Inf
    /\ \E sol \in initialize_solution :
         /\ current_solution' = sol
         /\ best_solution' = sol
         /\ best_cost' = sol.total_cost
         /\ costs' = <<sol.total_cost>>
    /\ spc' = "loop"
    /\ iter' = 1
    /\ q_values' = [op \in operators |-> QInit]
    /\ selection_counts' = [op \in operators |-> 0]
    /\ UNCHANGED <<inst, evars_local, xvars, neighbors, found_valid_move, final_sol>>

\* the trigger of the oscillation branch of a pass; no pass of Spec reaches it
oscillation_due ==
    iter > 50 /\ (no_improvement_counter > 150 \/ iter % 250 = 0)

\* the state after the admission loop took neighbor n (valid: admitted by the
\* loop, otherwise the fallback on neighbors[0]), and after _update_tenure
Adopt(n, valid) ==
    LET k0 == [current_tenure |-> current_tenure,
               tabu_list |-> IF valid
                             THEN DequeAppend(tabu_list,
                                    get_move_signature(current_solution.assignment, n.assignment),
                                    tabu_maxlen)
                             ELSE tabu_list,
               tabu_maxlen |-> tabu_maxlen,
               no_improvement_counter |-> no_improvement_counter,
               consecutive_improvements_counter |-> consecutive_improvements_counter]
        improves == valid /\ is_aspiration(n)
        k1 == update_tenure(IF improves THEN on_improvement(k0) ELSE on_no_improvement(k0))
    IN  /\ current_solution' = n
        /\ best_solution' = IF improves THEN n ELSE best_solution
        /\ best_cost' = IF improves THEN n.total_cost ELSE best_cost
        /\ costs' = Append(costs, n.total_cost)
        /\ found_valid_move' = valid
        /\ current_tenure' = k1.current_tenure
        /\ tabu_list' = k1.tabu_list
        /\ tabu_maxlen' = k1.tabu_maxlen
        /\ no_improvement_counter' = k1.no_improvement_counter
        /\ consecutive_improvements_counter' = k1.consecutive_improvements_counter

\* one pass of the loop of solve() with a non-empty batch: the ceiling is
\* refreshed, the batch sorted by cost, the first admitted neighbor taken (or
\* neighbors[0] when none is admitted); no neighbor carries type 'mo_move', so
\* _update_mo_strategy changes nothing
SolveIteration ==
    /\ spc = "loop"
    /\ iter <= max_iter
    /\ ~oscillation_due
    /\ pruning_cutoff' = set_pruning_best(best_cost)
    /\ \E B \in generate_neighbors(current_solution, set_pruning_best(best_cost)) :
         /\ B # {}
         /\ neighbors' = B
         /\ LET valid == {n \in B : admitted(n)}
            IN  IF valid # {}
                THEN \E n \in valid :
                       /\ \A m \in valid : n.total_cost <= m.total_cost
                       /\ Adopt(n, TRUE)
                ELSE \E n \in B :
                       /\ \A m \in B : n.total_cost <= m.total_cost
                       /\ Adopt(n, FALSE)
    /\ iter' = iter + 1
    /\ UNCHANGED <<inst, evars_local, xvars, q_values, selection_counts, spc, warnings, final_sol>>

\* an empty batch that is counted as a pass without improvement
SolveSkip_mut ==
    /\ spc = "loop"
    /\ iter <= max_iter
    /\ ~oscillation_due
    /\ pruning_cutoff' = set_pruning_best(best_cost)
    /\ {} \in generate_neighbors(current_solution, set_pruning_best(best_cost))
    /\ neighbors' = {}
    /\ iter' = iter + 1
    /\ no_improvement_counter' = no_improvement_counter + 1
    /\ UNCHANGED <<inst, evars_local, xvars, q_values, selection_counts, spc,
                   current_solution, best_solution, best_cost,
                   costs, tabu_list, tabu_maxlen, current_tenure,
                   consecutive_improvements_counter, found_valid_move, warnings, final_sol>>

\* the generator returned an empty batch: continue
SolveSkip ==
    /\ spc = "loop"
    /\ iter <= max_iter
    /\ ~oscillation_due
    /\ pruning_cutoff' = set_pruning_best(best_cost)
    /\ {} \in generate_neighbors(current_solution, set_pruning_best(best_cost))
    /\ neighbors' = {}
    /\ iter' = iter + 1
    /\ UNCHANGED <<inst, evars_local, xvars, q_values, selection_counts, spc,
                   current_solution, best_solution, best_cost,
                   costs, tabu_list, tabu_maxlen, current_tenure,
                   no_improvement_counter,
                   consecutive_improvements_counter, found_valid_move, warnings, final_sol>>

\* the neighbor request as written passes (current_solution, mo_probability,
\* evaluator) to generate_neighbors(self, base_solution, evaluator): TypeError
SolveRaise ==
    /\ spc = "loop"
    /\ iter <= max_iter
    /\ ~oscillation_due
    /\ pruning_cutoff' = set_pruning_best(best_cost)
    /\ spc' = "raised"
    /\ UNCHANGED <<inst, evars_local, xvars, q_values, selection_counts, iter,
                   current_solution, best_solution, best_cost,
                   costs, tabu_list, tabu_maxlen, current_tenure,
                   no_improvement_counter,
                   consecutive_improvements_counter, neighbors, found_valid_move,
                   warnings, final_sol>>

\* the loop ends (max_iter passes done, or the time limit found exceeded at
\* the top of a pass) and _finalize_solution runs: ceiling off, the best
\* solution evaluated again in place, the result converted to names
SolveFinish ==
    /\ spc = "loop"
    /\ pruning_cutoff' = Inf
    /\ \E final_sol_id \in Results(best_solution.assignment, Inf) :
         /\ best_solution' = final_sol_id
         /\ final_sol' = convert_solution_to_string_keys(final_sol_id)
    /\ spc' = "done"
    /\ UNCHANGED <<inst, evars_local, xvars, q_values, selection_counts, iter,
                   current_solution, best_cost, costs, tabu_list,
                   tabu_maxlen, current_tenure, no_improvement_counter,
                   consecutive_improvements_counter, neighbors, found_valid_move, warnings>>

Next == Construct \/ SolveIteration \/ SolveSkip \/ SolveRaise \/ SolveFinish

Spec == Init /\ [][Next]_vars

-----------------------------------------------------------------------------
\* Properties of the solver (checked under Spec)

\* a pass of the loop that adopted a neighbor as the new current solution
AdoptionStep == spc = "loop" /\ Len(costs') = Len(costs) + 1

\* the signature of neighbor n relative to the current solution is in the tabu memory
TabuMove(n) == is_tabu(get_move_signature(current_solution.assignment, n.assignment))

\* C3 (as stated): a candidate whose move signature is in the tabu memory is
\* never adopted as the new current solution unless its total cost is
\* strictly less than the best-ever cost
C3_TabuAdmissibility ==
    [][AdoptionStep /\ TabuMove(current_solution')
         => current_solution'.total_cost < best_cost]_vars

\* C3 (amended): a tabu candidate is adopted only if its cost is strictly
\* less than the best-ever cost, or if no candidate of the batch is admitted
\* (all are tabu and none beats the best-ever cost), in which case it is a
\* lowest-cost candidate of the batch and the tabu memory is left as it was
C3_TabuAdmissibilityOrFallback ==
    [][AdoptionStep /\ TabuMove(current_solution')
         /\ ~(current_solution'.total_cost < best_cost)
         => /\ ~found_valid_move'
            /\ current_solution' \in neighbors'
            /\ \A m \in neighbors' :
                 /\ TabuMove(m)
                 /\ ~(m.total_cost < best_cost)
                 /\ current_solution'.total_cost <= m.total_cost
            /\ best_cost' = best_cost
            /\ \A k \in 1..Len(tabu_list') : is_tabu(tabu_list'[k])]_vars

\* the last pass fell back on the lowest-cost candidate of an all-tabu batch
C3_Witness ==
    /\ spc = "loop"
    /\ neighbors # {}
    /\ ~found_valid_move
    /\ current_solution \in neighbors
    /\ ~(current_solution.total_cost < best_cost)

\* C9: solve() returns the re-evaluated best solution, and its total_cost
\* equals the best-ever cost tracked during the search
C9_FinalCostIsBest ==
    spc = "done" => /\ pruning_cutoff = Inf
                    /\ final_sol.complete
                    /\ final_sol.total_cost = best_cost

\* C10: when some line has no capability-enabled style the constructor
\* fails: no simulation runs, no search starts and no schedule is produced
C10_ConfigurationError ==
    (\E l \in LineSet : cap_map(l) = {})
      => /\ spc = "new"
         /\ current_solution = NoSolution
         /\ final_sol = NoSolution

\* the style ids that a finalized solution still carries in its style-keyed fields
StyleKeysOf(sol) ==
    {sol.assignment[c] : c \in Cells}
      \cup {x[2] : x \in sol.production}
      \cup {x[1] : x \in sol.shipment}
      \cup {x[2] : x \in sol.changes} \cup {x[3] : x \in sol.changes}
      \cup DOMAIN sol.final_backlog

\* C11: in the solution returned by solve() every style-keyed field
\* (assignment values, production keys, shipment keys, change-record keys,
\* backlog keys) uses external style identifiers; no internal id remains
C11_ExternalIdentifiers ==
    spc = "done" => \A v \in StyleKeysOf(final_sol) : IsStr(v)

\* C12: with the initial tenure inside [min_tenure, max_tenure] the current
\* tenure stays inside [min_tenure, max_tenure]; it shrinks only in a pass
\* that completes decrease_threshold consecutive global improvements and
\* grows only in a pass that completes increase_threshold passes without one
C12_TenureBounds ==
    /\ [](spc # "new" => min_tenure <= current_tenure /\ current_tenure <= max_tenure)
    /\ [][spc = "loop" =>
            /\ current_tenure' < current_tenure
                 => /\ best_cost' < best_cost
                    /\ consecutive_improvements_counter + 1 >= decrease_threshold
            /\ current_tenure' > current_tenure
                 => /\ best_cost' = best_cost
                    /\ no_improvement_counter + 1 >= increase_threshold]_vars

\* the n most recent entries of q, in order
MostRecent(q, n) == SubSeq(q, Len(q) - n + 1, Len(q))

\* the tabu memory right after the admission loop of a pass, before _update_tenure
AfterAppend ==
    IF found_valid_move'
    THEN LET sig == get_move_signature(current_solution.assignment,
                                       current_solution'.assignment)
         IN  IF Len(tabu_list) = current_tenure
             THEN Append(Tail(tabu_list), sig)
             ELSE Append(tabu_list, sig)
    ELSE tabu_list

\* C13: the tabu memory never holds more signatures than the current tenure
\* and its capacity is the current tenure; appending to a full memory evicts
\* the oldest signature; a change of tenure keeps exactly the most recent
\* min(old size, new tenure) signatures, in order
C13_BoundedFifo ==
    /\ [](spc # "new" => /\ Len(tabu_list) <= current_tenure
                         /\ tabu_maxlen = current_tenure)
    /\ [][AdoptionStep
            => tabu_list' = MostRecent(AfterAppend,
                                       Min(Len(AfterAppend), current_tenure'))]_vars

\* a third admitted move was appended to a memory that was full after the
\* tenure had shrunk to 2: the oldest signature was evicted
C13_Witness ==
    /\ spc = "loop"
    /\ Len(costs) = 4
    /\ found_valid_move
    /\ current_tenure = 2
    /\ Len(tabu_list) = 2
    /\ no_improvement_counter + consecutive_improvements_counter = 1

\* C18: in every pass in which a candidate is admitted the orchestrator calls
\* the generator's reward update for the operator that produced it, so that
\* operator's value estimate and selection counter change before the next
\* selection
C18_BanditFeedback ==
    [][AdoptionStep /\ found_valid_move'
         => \E op \in operators :
              /\ selection_counts'[op] = selection_counts[op] + 1
              /\ \A o \in operators \ {op} :
                   /\ selection_counts'[o] = selection_counts[o]
                   /\ q_values'[o] = q_values[o]]_vars

\* the candidates of the batch just examined that pass the admission test:
\* strictly better than the best-ever cost, or not in the tabu memory
Qualifying ==
    {n \in neighbors' : n.total_cost < best_cost \/ ~TabuMove(n)}

\* C19: the adopted candidate is the lowest-cost one that is strictly better
\* than the best-ever cost or not tabu; only when no candidate qualifies is
\* the lowest-cost candidate of the batch adopted, and then the stall counter
\* is incremented (and reset by _update_tenure when the increment reaches
\* increase_threshold) and the best solution is unchanged
C19_AdmissionOrder ==
    [][AdoptionStep =>
         IF Qualifying # {}
         THEN /\ found_valid_move'
              /\ current_solution' \in Qualifying
              /\ \A m \in Qualifying : current_solution'.total_cost <= m.total_cost
         ELSE /\ ~found_valid_move'
              /\ current_solution' \in neighbors'
              /\ \A m \in neighbors' : current_solution'.total_cost <= m.total_cost
              /\ no_improvement_counter' =
                   IF no_improvement_counter + 1 >= increase_threshold
                   THEN 0 ELSE no_improvement_counter + 1
              /\ consecutive_improvements_counter' = 0
              /\ best_solution' = best_solution
              /\ best_cost' = best_cost]_vars

\* the last pass passed over a cheaper candidate (tabu and not better than
\* the best-ever cost) and adopted the cheapest qualifying one
C19_Witness ==
    /\ spc = "loop"
    /\ found_valid_move
    /\ current_solution \in neighbors
    /\ \E m \in neighbors : m.total_cost < current_solution.total_cost

\* the signature of the move that undoes the move of signature sig
ReverseOf(sig) == {<<x[1], x[3], x[2]>> : x \in sig}

\* C20: while the signature of an admitted move that changed one cell from
\* style a to style b is in the tabu memory, the admission loop admits the
\* move changing that cell back from b to a only if its cost is strictly
\* below the best-ever cost
C20_NoReversal ==
    [][AdoptionStep /\ found_valid_move'
         /\ (\E k \in 1..Len(tabu_list) :
               /\ Cardinality(tabu_list[k]) = 1
               /\ get_move_signature(current_solution.assignment,
                                     current_solution'.assignment)
                    = ReverseOf(tabu_list[k]))
         => current_solution'.total_cost < best_cost]_vars

\* the end-to-end scenario was evaluated to the end: the one line is assigned
\* its one enabled style in every period
ScenarioEvaluated ==
    /\ inst.scenario # 0
    /\ ein = [c \in Cells |-> 0]
    /\ epass = 1
    /\ epc = "done"
    /\ ev.complete

\* C15: one line with no initial style, assigned the same single capable
\* style in all periods, fabric covering all demand arriving in period 1 with
\* zero lead times, capacity sufficient: the evaluation records exactly one
\* changeover, at period 1 from no style to the style, the final backlog is
\* zero and total_late = 0
C15_Scenario ==
    ScenarioEvaluated
      => /\ ev.changes = {<<1, None, 0, 1>>}
         /\ \A n \in DOMAIN ev.final_backlog : ev.final_backlog[n] = 0
         /\ ev.late_cost = 0

\* the scenario of the specification (demand of 5 units in period 2) was
\* evaluated and the demand shipped in period 2
C15_Witness ==
    /\ ScenarioEvaluated
    /\ inst.scenario = 2
    /\ <<0, 2, 5>> \in ev.shipment

-----------------------------------------------------------------------------
\* get_efficiency applied to learning curves and experience values

\* breakpoints lie at experience 0..MaxX; a curve has 2 or 3 of them
MaxX == 3

RECURSIVE Factorial(_)
Factorial(n) == IF n <= 1 THEN 1 ELSE n * Factorial(n - 1)

\* efficiency values are multiples of EffUnit, so that every interpolated
\* value at an integer experience is a whole number of 1/EffDen
EffUnit == Factorial(MaxX)

\* the curves: breakpoints ordered by strictly increasing experience, with
\* non-decreasing efficiency values
Curves ==
    {c \in UNION {[1..n -> (0..MaxX) \X {EffUnit, 2 * EffUnit, 3 * EffUnit}] : n \in 2..3} :
       \A i \in 1..(Len(c) - 1) : c[i][1] < c[i + 1][1] /\ c[i][2] <= c[i + 1][2]}

\* the experience values handed to get_efficiency
ExpDays == (0 - 1)..(MaxX + 1)

CurveInstances ==
    [y0 : {[l \in BaseLines |-> None]}, cap : {[l \in BaseLines |-> PlanStyles]},
     i0fab : {[s \in BaseStyles |-> 30]}, scenario : {0}, curve : Curves]

\* no evaluation is running
NoEvaluation ==
    /\ pruning_cutoff = Inf
    /\ ev = NoSolution
    /\ epc = "idle"
    /\ et = 0
    /\ epass = 0
    /\ efirst = NoSolution
    /\ ein = <<>>

CurveInit ==
    /\ inst \in CurveInstances
    /\ NoEvaluation
    /\ NoSolver
    /\ NoExtras

\* one call of get_efficiency; the last two calls are kept
GetEfficiency ==
    /\ \E exp_days \in ExpDays :
         eff_calls' = (IF Len(eff_calls) = 2 THEN Tail(eff_calls) ELSE eff_calls)
                        \o << <<exp_days, get_efficiency(exp_days)>> >>
    /\ UNCHANGED <<inst, pruning_cutoff, evars_local, cfg, stall, relaxed_sol, ovars>>
    /\ UNCHANGED svars

CurveNext == GetEfficiency

SpecCurve == CurveInit /\ [][CurveNext]_vars

\* the value the curve prescribes at experience x is y
OnCurve(x, y) ==
    LET n == Len(curve)
    IN  IF x <= curve[1][1] THEN y = curve[1][2]
        ELSE IF x >= curve[n][1] THEN y = curve[n][2]
        ELSE \E i \in 1..(n - 1) :
               /\ curve[i][1] <= x /\ x <= curve[i + 1][1]
               /\ (y - curve[i][2]) * (curve[i + 1][1] - curve[i][1])
                    = (curve[i + 1][2] - curve[i][2]) * (x - curve[i][1])

\* C16: for ordered breakpoints with non-decreasing values get_efficiency is
\* non-decreasing in experience and returns, for every experience, a value
\* between the least and the greatest breakpoint value: the first value at or
\* below the first breakpoint, the last value at or above the last one, the
\* linear interpolation of the bracketing breakpoints in between
C16_EfficiencyCurve ==
    /\ \A k \in 1..Len(eff_calls) :
         /\ OnCurve(eff_calls[k][1], eff_calls[k][2])
         /\ \E i \in 1..Len(curve) : curve[i][2] <= eff_calls[k][2]
         /\ \E i \in 1..Len(curve) : eff_calls[k][2] <= curve[i][2]
    /\ \A j, k \in 1..Len(eff_calls) :
         eff_calls[j][1] <= eff_calls[k][1] => eff_calls[j][2] <= eff_calls[k][2]

\* a call below the first breakpoint was followed by a call strictly between
\* two breakpoints of different value, which returned a value strictly
\* between theirs
C16_Witness ==
    /\ Len(eff_calls) = 2
    /\ eff_calls[1][1] < curve[1][1]
    /\ \E i \in 1..(Len(curve) - 1) :
         /\ curve[i][1] < eff_calls[2][1] /\ eff_calls[2][1] < curve[i + 1][1]
         /\ curve[i][2] < eff_calls[2][2] /\ eff_calls[2][2] < curve[i + 1][2]

-----------------------------------------------------------------------------
\* StrategicOscillationHandler (metaheuristic/oscillation_strategy.py): the
\* relax step of _perform_oscillation, from a pass of the loop at which the
\* periodic trigger holds

\* the ids of the styles with a positive quantity in the backlog map
high_risk_ids_mut(current_solution_in) ==
    {style_to_id_get(n) : n \in DOMAIN current_solution_in.final_backlog} \ {None}

high_risk_ids(current_solution_in) ==
    {style_to_id_get(n) : n \in {m \in DOMAIN current_solution_in.final_backlog :
                                   current_solution_in.final_backlog[m] > 0}} \ {None}

\* max(5, int(len(lines) * len(times) * 0.05))
num_changes == Max(5, (Cardinality(LineSet) * NumPeriods * 5) \div 100)

\* n times: a random cell is set to a random style of the set styles, with no
\* capability test; the grids that can result
RECURSIVE ForceStyles(_, _, _)
ForceStyles(A, styles, n) ==
    IF n = 0 THEN A
    ELSE ForceStyles({[a EXCEPT ![c] = s] : a \in A, c \in Cells, s \in styles},
                     styles, n - 1)

\* _random_perturbation: 10 random cells set to any style id of the system
random_perturbation(solution) ==
    {[solution EXCEPT !.assignment = a] :
       a \in ForceStyles({solution.assignment}, StyleIds, 10)}

\* explore_infeasible_region: the solutions it can return; it works on a deep
\* copy, whose other fields are those of its argument
explore_infeasible_region(current_solution_in) ==
    IF high_risk_ids(current_solution_in) = {}
    THEN random_perturbation(current_solution_in)
    ELSE {[current_solution_in EXCEPT !.assignment = a] :
            a \in ForceStyles({current_solution_in.assignment},
                              high_risk_ids(current_solution_in), num_changes)}

\* the iteration the relax step is explored at: the first periodic trigger
OscIter == 250

\* a solver constructed with increase_threshold above the stagnation limit of
\* _perform_oscillation, so that its stall counter can pass that limit
PatientConfig ==
    [max_iter |-> OscIter, tabu_tenure |-> 3, min_tenure |-> 1, max_tenure |-> 4,
     increase_threshold |-> OscIter, decrease_threshold |-> 2]

\* the stagnation limit of _perform_oscillation
StagnationLimit == 200

\* what the loop can arrive at pass OscIter with: right after an improvement
\* and an emptied tabu memory, or stalled beyond the stagnation limit with a
\* move in the tabu memory
Arrivals ==
    {[cfg |-> ScaledConfig, no_improvement_counter |-> 0, tabu_list |-> <<>>],
     [cfg |-> PatientConfig, no_improvement_counter |-> StagnationLimit + 1,
      tabu_list |-> << {<< <<1, 1>>, 0, 1>>} >>]}

\* the solver was constructed and its loop has reached pass OscIter: the best
\* solution is an evaluation of some grid of grids, adopted by the last pass
OscArriveFrom(grids, arrivals) ==
    /\ spc = "new"
    /\ warnings' = {l \in LineSet : cap_map(l) = {}}
    /\ q_values' = [op \in operators |-> QInit]
    /\ selection_counts' = [op \in operators |-> 0]
    /\ \E sol \in UNION {Results(g, Inf) : g \in grids} :
         /\ best_solution' = sol
         /\ current_solution' = sol
         /\ best_cost' = sol.total_cost
         /\ costs' = <<sol.total_cost>>
    /\ \E a \in arrivals :
         /\ cfg' = a.cfg
         /\ tabu_list' = a.tabu_list
         /\ tabu_maxlen' = a.cfg.tabu_tenure
         /\ current_tenure' = a.cfg.tabu_tenure
         /\ no_improvement_counter' = a.no_improvement_counter
    /\ consecutive_improvements_counter' = 1
    /\ spc' = "loop"
    /\ iter' = OscIter
    /\ UNCHANGED <<inst, pruning_cutoff, evars_local, stall, relaxed_sol, eff_calls, ovars,
                   neighbors, found_valid_move, final_sol>>

\* the relax step is explored from every grid, right after an improvement
OscArrive == OscArriveFrom(Grids, {a \in Arrivals : a.no_improvement_counter = 0})

\* the start of a pass, set_pruning_best(best_cost), and _perform_oscillation,
\* step 1: relaxed_sol = explore_infeasible_region(best_solution)
OscRelax ==
    /\ spc = "loop"
    /\ iter > 50
    /\ oscillation_due
    /\ pruning_cutoff' = set_pruning_best(best_cost)
    /\ relaxed_sol' \in explore_infeasible_region(best_solution)
    /\ spc' = "osc_relaxed"
    /\ UNCHANGED <<inst, evars_local, cfg, stall, eff_calls, ovars>>
    /\ UNCHANGED <<iter, current_solution, best_solution, best_cost, costs, tabu_list,
                   tabu_maxlen, current_tenure, no_improvement_counter,
                   consecutive_improvements_counter, neighbors, found_valid_move,
                   warnings, q_values, selection_counts, final_sol>>

\* the counters as the record _update_tenure works on
Counters ==
    [current_tenure |-> current_tenure, tabu_list |-> tabu_list,
     tabu_maxlen |-> tabu_maxlen, no_improvement_counter |-> no_improvement_counter,
     consecutive_improvements_counter |-> consecutive_improvements_counter]

\* aggressive_repair: the order of its scan, line by line, period by period
ScanOrder ==
    [k \in 1..(Len(set_l) * NumPeriods) |->
       <<set_l[((k - 1) \div NumPeriods) + 1], ((k - 1) % NumPeriods) + 1>>]

\* a visit that leaves the rescue line without the style it was given
RepairVisit_mut(a, l, t) ==
    LET s_id == a[<<l, t>>]
    IN  IF s_id = None \/ is_allowed(l, s_id) THEN {a}
        ELSE {[a EXCEPT ![<<l, t>>] = r, ![<<l_target, t>>] = s_id] :
                r \in random_allowed_style_id(l), l_target \in LineSet \ {l}}

\* aggressive_repair, one visit of its scan, at cell (l, t) of grid a: the
\* grids it can leave
RepairVisit(a, l, t) ==
    LET s_id == a[<<l, t>>]
    IN  IF s_id = None \/ is_allowed(l, s_id) THEN {a}
        ELSE LET candidates == {candidate_l \in LineSet :
                                  candidate_l # l /\ is_allowed(candidate_l, s_id)}
             IN  IF candidates # {}
                 THEN UNION {LET s_target_current == a[<<l_target, t>>]
                                 a1 == [a EXCEPT ![<<l_target, t>>] = s_id]
                             IN  IF s_target_current # None /\ is_allowed(l, s_target_current)
                                 THEN {[a1 EXCEPT ![<<l, t>>] = s_target_current]}
                                 ELSE {[a1 EXCEPT ![<<l, t>>] = r] :
                                         r \in random_allowed_style_id(l)} :
                             l_target \in candidates}
                 ELSE {[a EXCEPT ![<<l, t>>] = r] : r \in random_allowed_style_id(l)}

\* the grid and the position a visit starts from: the first visit works on
\* the deep copy of the relaxed assignment
ScanGrid == IF spc = "osc_relaxed" THEN relaxed_sol.assignment ELSE repaired_assign

ScanPos == IF spc = "osc_relaxed" THEN 1 ELSE scan_idx

\* aggressive_repair: one visit of the scan
OscVisit ==
    /\ spc \in {"osc_relaxed", "osc_scan"}
    /\ ScanPos <= Len(ScanOrder)
    /\ repaired_assign' \in RepairVisit(ScanGrid, ScanOrder[ScanPos][1], ScanOrder[ScanPos][2])
    /\ scan_idx' = ScanPos + 1
    /\ spc' = "osc_scan"
    /\ UNCHANGED <<inst, pruning_cutoff, evars_local, cfg, stall, relaxed_sol, eff_calls,
                   feasible_sol, oscillation_triggered>>
    /\ UNCHANGED <<iter, current_solution, best_solution, best_cost, costs, tabu_list,
                   tabu_maxlen, current_tenure, no_improvement_counter,
                   consecutive_improvements_counter, neighbors, found_valid_move,
                   warnings, q_values, selection_counts, final_sol>>

\* aggressive_repair: the scan is over, the evaluator costs the grid
OscEvaluate ==
    /\ spc = "osc_scan"
    /\ scan_idx > Len(ScanOrder)
    /\ feasible_sol' \in Results(repaired_assign, pruning_cutoff)
    /\ spc' = "osc_repaired"
    /\ UNCHANGED <<inst, pruning_cutoff, evars_local, cfg, stall, relaxed_sol, eff_calls,
                   repaired_assign, scan_idx, oscillation_triggered>>
    /\ UNCHANGED <<iter, current_solution, best_solution, best_cost, costs, tabu_list,
                   tabu_maxlen, current_tenure, no_improvement_counter,
                   consecutive_improvements_counter, neighbors, found_valid_move,
                   warnings, q_values, selection_counts, final_sol>>

\* tabu_list.clear() keeps no entry
DequeClear(q) == <<>>

\* cost_new < current_solution['total_cost'] * 1.1
stagnation_accepts(cost_new, cur) ==
    IF cost_new = Inf THEN FALSE
    ELSE IF cur = Inf THEN TRUE
    ELSE 10 * cost_new < 11 * cur

\* _perform_oscillation, step 3: the repaired solution is a new best, or it
\* is accepted under stagnation, or it is dropped
OscAccept ==
    /\ spc = "osc_repaired"
    /\ LET cost_new == feasible_sol.total_cost
       IN  IF cost_new < best_cost
           THEN /\ best_solution' = feasible_sol
                /\ best_cost' = cost_new
                /\ current_solution' = feasible_sol
                /\ consecutive_improvements_counter' =
                     on_improvement(Counters).consecutive_improvements_counter
                /\ no_improvement_counter' = on_improvement(Counters).no_improvement_counter
                /\ tabu_list' = DequeClear(tabu_list)
                /\ oscillation_triggered' = TRUE
           ELSE IF /\ no_improvement_counter > StagnationLimit
                   /\ stagnation_accepts(cost_new, current_solution.total_cost)
           THEN /\ current_solution' = feasible_sol
                /\ tabu_list' = DequeClear(tabu_list)
                /\ no_improvement_counter' = 50
                /\ oscillation_triggered' = TRUE
                /\ UNCHANGED <<best_solution, best_cost, consecutive_improvements_counter>>
           ELSE /\ oscillation_triggered' = FALSE
                /\ UNCHANGED <<best_solution, best_cost, current_solution, tabu_list,
                               no_improvement_counter, consecutive_improvements_counter>>
    /\ spc' = "osc_done"
    /\ UNCHANGED <<inst, pruning_cutoff, evars_local, cfg, stall, relaxed_sol, eff_calls,
                   repaired_assign, scan_idx, feasible_sol>>
    /\ UNCHANGED <<iter, costs, tabu_maxlen, current_tenure, neighbors, found_valid_move,
                   warnings, q_values, selection_counts, final_sol>>

\* the whole of _perform_oscillation is explored from the grids that keep
\* each line on one style
SteadyGrids == {g \in Grids : \A c \in Cells : g[c] = g[<<c[1], 1>>]}

RepairArrive == OscArriveFrom(SteadyGrids, Arrivals)

RepairNext == RepairArrive \/ OscRelax \/ OscVisit \/ OscEvaluate \/ OscAccept

\* the instances _perform_oscillation is explored on: those of the solver and
\* the one-line scenarios with the line already running its style, whose
\* plan has no setup and no late delivery
RepairInstances ==
    SolverInstances \cup {[i EXCEPT !.y0 = [l \in {1} |-> 0]] : i \in ScenarioInstances}

RepairInit ==
    /\ inst \in RepairInstances
    /\ NoEvaluation
    /\ spc = "new"
    /\ iter = 0
    /\ current_solution = NoSolution
    /\ best_solution = NoSolution
    /\ best_cost = None
    /\ costs = <<>>
    /\ tabu_list = <<>>
    /\ tabu_maxlen = 0
    /\ current_tenure = 0
    /\ no_improvement_counter = 0
    /\ consecutive_improvements_counter = 0
    /\ neighbors = {}
    /\ found_valid_move = FALSE
    /\ warnings = {}
    /\ q_values = <<>>
    /\ selection_counts = <<>>
    /\ final_sol = NoSolution
    /\ NoExtras

SpecRepair == RepairInit /\ [][RepairNext]_vars

OscNext == OscArrive \/ OscRelax

SpecOsc == Init /\ [][OscNext]_vars

\* the cells in which the relaxed solution differs from the solution it was made from
ChangedCells == {c \in Cells : relaxed_sol.assignment[c] # best_solution.assignment[c]}

\* C14: when the backlog map of the input solution has a style with positive
\* backlog, every cell the relax step changes is set to a style with positive
\* backlog in that map, at most max(5, floor(0.05 * |Lines| * |TimePeriods|))
\* cells are changed, and the input solution is left as it was
C14_RelaxStep ==
    /\ []((spc = "osc_relaxed"
             /\ \E n \in DOMAIN best_solution.final_backlog :
                  best_solution.final_backlog[n] > 0)
          => /\ \A c \in ChangedCells :
                  /\ relaxed_sol.assignment[c] \in StyleIds
                  /\ best_solution.final_backlog[id_to_style(relaxed_sol.assignment[c])] > 0
             /\ 20 * Cardinality(ChangedCells)
                  <= Max(100, Cardinality(LineSet) * NumPeriods))
    /\ [][spc = "loop" /\ spc' = "osc_relaxed" => best_solution' = best_solution]_vars

\* the relax step changed five cells of a solution with a positive backlog,
\* one of them on a line that is not enabled for the style it now holds
C14_Witness ==
    /\ spc = "osc_relaxed"
    /\ \E n \in DOMAIN best_solution.final_backlog : best_solution.final_backlog[n] > 0
    /\ Cardinality(ChangedCells) = 5
    /\ \E c \in ChangedCells : relaxed_sol.assignment[c] \notin inst.cap[c[1]]

-----------------------------------------------------------------------------
\* The counters of solve() under the configured thresholds. Every pass is
\* reduced to its outcome (a global improvement or none); batches are not
\* empty; the solutions and the tabu signatures are left out.

\* the passes explored: up to the first periodic trigger
StallMaxIter == 250

\* main.py: TabuSearchSolver(input_data, max_iter=10000, tabu_tenure=10,
\* max_time=600), the other arguments at their defaults; max_iter is capped
MainConfig ==
    [max_iter |-> StallMaxIter, tabu_tenure |-> 10, min_tenure |-> 5, max_tenure |-> 40,
     increase_threshold |-> 50, decrease_threshold |-> 10]

\* the stall threshold of the oscillation trigger
StallThreshold == 150

StallInit ==
    /\ inst \in {i \in SolverInstances :
                   \A l \in BaseLines : i.y0[l] = None /\ i.cap[l] = PlanStyles}
    /\ NoEvaluation
    /\ cfg = MainConfig
    /\ stall = 0
    /\ relaxed_sol = NoSolution
    /\ eff_calls = <<>>
    /\ repaired_assign = <<>>
    /\ scan_idx = 0
    /\ feasible_sol = NoSolution
    /\ oscillation_triggered = FALSE
    /\ spc = "loop"
    /\ iter = 1
    /\ current_solution = NoSolution
    /\ best_solution = NoSolution
    /\ best_cost = None
    /\ costs = <<>>
    /\ tabu_list = <<>>
    /\ tabu_maxlen = tabu_tenure
    /\ current_tenure = tabu_tenure
    /\ no_improvement_counter = 0
    /\ consecutive_improvements_counter = 0
    /\ neighbors = {}
    /\ found_valid_move = FALSE
    /\ warnings = {}
    /\ q_values = <<>>
    /\ selection_counts = <<>>
    /\ final_sol = NoSolution

\* the rest of a pass from counters k: the admission loop improves the best
\* cost or not (the fallback counts as not), then _update_tenure
SearchOutcome(k, improved) ==
    LET k1 == update_tenure(IF improved THEN on_improvement(k) ELSE on_no_improvement(k))
    IN  /\ current_tenure' = k1.current_tenure
        /\ tabu_maxlen' = k1.tabu_maxlen
        /\ no_improvement_counter' = k1.no_improvement_counter
        /\ consecutive_improvements_counter' = k1.consecutive_improvements_counter
        /\ stall' = IF improved THEN 0 ELSE Min(stall + 1, StallThreshold + 1)

\* a pass without oscillation
StallPass ==
    /\ spc = "loop"
    /\ iter <= max_iter
    /\ ~oscillation_due
    /\ \E improved \in BOOLEAN : SearchOutcome(Counters, improved)
    /\ iter' = iter + 1
    /\ UNCHANGED <<inst, pruning_cutoff, evars_local, cfg, relaxed_sol, eff_calls, ovars>>
    /\ UNCHANGED <<spc, current_solution, best_solution, best_cost, costs, tabu_list,
                   neighbors, found_valid_move, warnings, q_values, selection_counts,
                   final_sol>>

\* a pass that starts with _perform_oscillation: the repaired solution beats
\* the best cost (the pass ends there, the counter being 0), or it is accepted
\* under stagnation (no_improvement_counter > 200, counter set to 50), or it is
\* dropped; in the last two cases the neighborhood search follows
StallOscillation ==
    /\ spc = "loop"
    /\ iter <= max_iter
    /\ oscillation_due
    /\ \/ /\ consecutive_improvements_counter' = consecutive_improvements_counter + 1
          /\ no_improvement_counter' = 0
          /\ stall' = 0
          /\ UNCHANGED <<current_tenure, tabu_maxlen>>
       \/ /\ no_improvement_counter > 200
          /\ \E improved \in BOOLEAN :
               SearchOutcome([Counters EXCEPT !.no_improvement_counter = 50], improved)
       \/ \E improved \in BOOLEAN : SearchOutcome(Counters, improved)
    /\ iter' = iter + 1
    /\ UNCHANGED <<inst, pruning_cutoff, evars_local, cfg, relaxed_sol, eff_calls, ovars>>
    /\ UNCHANGED <<spc, current_solution, best_solution, best_cost, costs, tabu_list,
                   neighbors, found_valid_move, warnings, q_values, selection_counts,
                   final_sol>>

StallNext == StallPass \/ StallOscillation

SpecStall == StallInit /\ [][StallNext]_vars

\* C17: once more than 150 consecutive passes have ended without a global
\* improvement, past iteration 50, the oscillation trigger holds at the next
\* pass: the counter the trigger reads counts the passes since the last
\* global improvement
C17_StallTriggersOscillation ==
    (spc = "loop" /\ iter > 50 /\ iter <= max_iter /\ stall > StallThreshold)
      => oscillation_due

-----------------------------------------------------------------------------
\* Claims about _perform_oscillation, checked under SpecRepair

\* the step in which _perform_oscillation settles what becomes of the repaired solution
OscDecision == spc = "osc_repaired" /\ spc' = "osc_done"

\* C21 as stated: _perform_oscillation empties the tabu memory if and only if
\* the repaired solution's cost is strictly less than the best-ever cost, and
\* then that solution becomes both best and current and the stall counter is
\* 0; in every other outcome the tabu memory is left unchanged
C21_ClearOnlyOnImprovement ==
    [][OscDecision =>
         IF feasible_sol.total_cost < best_cost
         THEN /\ tabu_list' = <<>>
              /\ best_solution' = feasible_sol
              /\ current_solution' = feasible_sol
              /\ no_improvement_counter' = 0
         ELSE tabu_list' = tabu_list]_vars

\* cost c is at most 10% worse than cost cur, whatever the sign of cur
WithinTenPercent(c, cur) ==
    c # Inf /\ 10 * c <= 10 * cur + (IF cur < 0 THEN 0 - cur ELSE cur)

\* C22: when oscillation runs with the stall counter above the stagnation
\* limit and its repaired solution does not improve the best cost, the
\* solution becomes the current solution, the best one unchanged, exactly
\* when its cost is at most 10% worse than the current cost, for current
\* costs of either sign
C22_StagnationAcceptance ==
    [][(OscDecision /\ no_improvement_counter > StagnationLimit
          /\ ~(feasible_sol.total_cost < best_cost))
       => /\ best_solution' = best_solution
          /\ IF WithinTenPercent(feasible_sol.total_cost, current_solution.total_cost)
             THEN oscillation_triggered' /\ current_solution' = feasible_sol
             ELSE ~oscillation_triggered' /\ current_solution' = current_solution]_vars

\* every line has at least one capable style
AllCapable == \A l \in LineSet : line_allowed(l) # {}

\* the cells the scan of aggressive_repair has visited
Visited == {ScanOrder[k] : k \in 1..(scan_idx - 1)}

\* C23: on an instance in which every line has a capable style, every cell
\* the scan of aggressive_repair has visited holds a style enabled on its
\* line, at every point of the scan and so for the whole grid when the scan is
\* over, before the evaluator is called; and a visit changes a cell other than
\* the visited one only by giving it the violating style of the visited cell,
\* at the same period, on a line that is capable of it
C23_AggressiveRepair ==
    /\ []((AllCapable /\ spc = "osc_scan")
            => \A c \in Visited : is_allowed(c[1], repaired_assign[c]))
    /\ [][(AllCapable /\ spc \in {"osc_relaxed", "osc_scan"} /\ spc' = "osc_scan")
            => \A c \in Cells \ {ScanOrder[ScanPos]} :
                 repaired_assign'[c] # ScanGrid[c]
                   => /\ c[2] = ScanOrder[ScanPos][2]
                      /\ ~is_allowed(ScanOrder[ScanPos][1], ScanGrid[ScanOrder[ScanPos]])
                      /\ repaired_assign'[c] = ScanGrid[ScanOrder[ScanPos]]
                      /\ is_allowed(c[1], repaired_assign'[c])]_vars

\* the scan is over; at some period the first line held a style it is not
\* enabled for and was repaired, and the second line's violating style was
\* then moved onto that repaired cell
C23_Witness ==
    /\ AllCapable
    /\ spc = "osc_scan"
    /\ scan_idx > Len(ScanOrder)
    /\ \E t \in Periods :
         /\ ~is_allowed(1, relaxed_sol.assignment[<<1, t>>])
         /\ ~is_allowed(2, relaxed_sol.assignment[<<2, t>>])
         /\ repaired_assign[<<1, t>>] = relaxed_sol.assignment[<<2, t>>]

\* C24: a pass in which the neighbor generator returns an empty batch ends
\* without raising, and leaves the current solution, the best solution, the
\* best cost, the tabu memory, the tenure, the stall counter and the
\* improvement counter as they were
C24_EmptyBatch ==
    [][(spc = "loop" /\ iter' = iter + 1 /\ neighbors' = {})
         => /\ spc' = "loop"
            /\ UNCHANGED <<current_solution, best_solution, best_cost, tabu_list,
                           tabu_maxlen, current_tenure, no_improvement_counter,
                           consecutive_improvements_counter>>]_vars

\* the second pass got an empty batch, after a first pass that put a move in
\* the tabu memory
C24_Witness ==
    /\ spc = "loop"
    /\ iter = 3
    /\ neighbors = {}
    /\ tabu_list # <<>>
    /\ Len(costs) = 2

-----------------------------------------------------------------------------
\* Experience growth

\* the experience the simulation recorded for line l in period t (a set: empty
\* when the cell held no style or the period was not simulated)
ExperienceAt(sol, l, t) == {e[3] : e \in {x \in sol.experience : x[1] = l /\ x[2] = t}}

\* the experience of line l was reset by a changeover in period t
ResetAt(sol, l, t) ==
    \E c \in sol.changes : c[1] = l /\ c[4] = t /\ <<c[2], c[3]>> \notin setSsame

\* line l was a potential producer in period t and its realized share was at
\* least 50% of its own potential: the share is potential * actual / total
\* potential of the style, so that is actual >= 50% of the total potential
WorkedEnough(sol, l, t) ==
    \E p \in sol.production :
        p[1] = l /\ p[3] = t /\ p[4] > 0 /\ 2 * sol.hist[<<p[2], t>>] >= p[5]

\* between consecutive simulated periods, without a reset in the second one,
\* experience grows by 1 after a period worked enough and by 0 otherwise
ExperienceRule(sol) ==
    \A l \in LineSet, t \in 1..(NumPeriods - 1) :
      \A x \in ExperienceAt(sol, l, t), y \in ExperienceAt(sol, l, t + 1) :
         ~ResetAt(sol, l, t + 1)
           => y - x = (IF WorkedEnough(sol, l, t) THEN 1 ELSE 0)

\* C25: between consecutive periods t and t+1 on a line whose experience is
\* not reset by a changeover at t+1, experience increases by exactly 1 if the
\* line's realized production share at t was at least 50% of its own
\* potential output at t, and by 0 otherwise, in particular on a non-working
\* day and when the line was no potential producer
C25_ExperienceGrowth ==
    (epc \in {"loop", "done"}) => ExperienceRule(ev)

\* a simulation in which a line gained experience after a period worked
\* enough, a line produced some but less than half of its potential and
\* gained none, and a line gained none over its non-working day
C25_Witness ==
    /\ epc = "done"
    /\ ev.total_cost # Inf
    /\ \E l \in LineSet, t \in 1..(NumPeriods - 1) :
         /\ WorkedEnough(ev, l, t)
         /\ ~ResetAt(ev, l, t + 1)
         /\ \E x \in ExperienceAt(ev, l, t) : x + 1 \in ExperienceAt(ev, l, t + 1)
    /\ \E l \in LineSet, t \in 1..(NumPeriods - 1) :
         /\ \E p \in ev.production :
              /\ p[1] = l /\ p[3] = t
              /\ 0 < ev.hist[<<p[2], t>>] /\ 2 * ev.hist[<<p[2], t>>] < p[5]
         /\ ~ResetAt(ev, l, t + 1)
         /\ \E x \in ExperienceAt(ev, l, t) : x \in ExperienceAt(ev, l, t + 1)
    /\ \E l \in LineSet, t \in 1..(NumPeriods - 1) :
         /\ paramH(l, t) = 0
         /\ ~ResetAt(ev, l, t + 1)
         /\ \E x \in ExperienceAt(ev, l, t) : x \in ExperienceAt(ev, l, t + 1)

-----------------------------------------------------------------------------
\* Neighbor generation and the dict of the base solution

\* The dicts at play in one attempt of an operator: the assignment dict of the
\* base solution and the dict the attempt works on; a heap maps each to its
\* entries

\* an attempt that works on the base dict itself
copy_copy_mut(heap) == [ref |-> "base", heap |-> heap]

\* new_assign = copy.copy(base_assign): a new dict with the entries of the base dict
copy_copy(heap) == [ref |-> "new", heap |-> [heap EXCEPT !["new"] = heap["base"]]]

\* one attempt that ends with candidate n: the move, the evaluator's repair
\* and its look-ahead edits are all written to the dict the copy returned,
\* which ends as the candidate's assignment
AttemptHeap(heap, n) ==
    LET c == copy_copy(heap) IN [c.heap EXCEPT ![c.ref] = n.assignment]

\* the heap after the attempts of a batch
RECURSIVE HeapAfter(_, _)
HeapAfter(heap, batch) ==
    IF batch = {} THEN heap
    ELSE LET n == CHOOSE x \in batch : TRUE
         IN  HeapAfter(AttemptHeap(heap, n), batch \ {n})

\* the base solution after generate_neighbors returned batch
BaseAfter(base_solution, batch) ==
    [base_solution EXCEPT !.assignment =
       HeapAfter([o \in {"base", "new"} |-> base_solution.assignment], batch)["base"]]

-----------------------------------------------------------------------------
\* Pruning and improving candidates

\* the best costs whose ceiling the evaluator is run with: negative, zero and positive
PruningBests == {b \in {CostScale * c : c \in {0 - 20, 0, 100}} : set_pruning_best(b) \in Cutoffs}

\* C27: for every finite best cost b, positive, zero or negative, the ceiling
\* set_pruning_best(b) installs is >= b, and an assignment whose total cost
\* without pruning is below b is evaluated to that cost and not to the sentinel
C27_PruningKeepsImproving ==
    \A b \in PruningBests :
       pruning_cutoff = set_pruning_best(b)
         => /\ pruning_cutoff >= 5 * b
            /\ (epc = "done" /\ epass = 1 /\ Feasible(ein)
                  /\ Evaluate(ein, Inf).total_cost < b)
                 => ev.total_cost = Evaluate(ein, Inf).total_cost

-----------------------------------------------------------------------------
\* The solution slots of the solver

\* C28: at every iteration boundary the current solution is a completely
\* evaluated one: its total_cost is finite and its cost totals and backlog map
\* are present; a pruning sentinel is never adopted as the current solution
C28_CurrentEvaluated ==
    (spc \in {"loop", "done"} /\ current_solution # NoSolution)
      => /\ current_solution.total_cost # Inf
         /\ current_solution.complete
         /\ DOMAIN current_solution.final_backlog = {id_to_style(s) : s \in StyleIds}

\* C29: at every iteration boundary best_cost is the total_cost of the best
\* solution and is not above the total_cost of the current solution; over the
\* passes best_cost never increases, and the best solution is replaced only
\* by a solution whose cost is strictly below the best_cost it replaces
C29_BestBookkeeping ==
    /\ [](spc \in {"loop", "osc_done"}
            => /\ best_cost = best_solution.total_cost
               /\ best_cost <= current_solution.total_cost)
    /\ [][(spc # "new" /\ spc' # "done")
            => /\ best_cost' <= best_cost
               /\ best_solution' # best_solution
                    => /\ best_solution'.total_cost < best_cost
                       /\ best_cost' = best_solution'.total_cost]_vars

\* the best solution was replaced by a cheaper one in an earlier pass, and
\* the current solution has since moved to a more expensive one
C29_Witness ==
    /\ spc = "loop"
    /\ Len(costs) >= 3
    /\ best_cost < costs[1]
    /\ best_cost < current_solution.total_cost
    /\ current_solution.total_cost # Inf

\* C30: every candidate generate_neighbors returns maps every (line, period)
\* cell to a style id of the evaluator, 0 .. |Styles| - 1; no cell holds an
\* external style name after evaluation (stated for instances in which every
\* line has a capable style, so that no cell is left without a style)
C30_StyleIdDomain ==
    AllCapable => \A n \in neighbors : \A c \in Cells : n.assignment[c] \in StyleIds

====
